---- MODULE Spec2Model ----
(***************************************************************************)
(* OAuth2 token lifecycle of the Wahoo MCP server: TokenData / TokenStore  *)
(* (src/src/token_store.py) and the refresh-and-retry protocol of          *)
(* WahooAPIClient (src/src/server.py).                                     *)
(*                                                                         *)
(* Python Optional values are sequences of length at most one: <<>> is     *)
(* None (JSON null), <<v>> is the value v.  A dict is a function whose     *)
(* DOMAIN is the set of keys present.                                      *)
(***************************************************************************)
EXTENDS Integers, Sequences, FiniteSets, TLC

VARIABLES env, file, fmode, cache, token_data, header, client, now, issued, started,
          calls, st

vars == <<env, file, fmode, cache, token_data, header, client, now, issued, started,
          calls, st>>

(***************************************************************************)
(* Bounds of the model                                                     *)
(***************************************************************************)
Now0 == 1000
MaxCalls == 1
MaxIssued == 1
MaxOps == 2
MaxConcurrent == 2

(***************************************************************************)
(* Program constants                                                       *)
(***************************************************************************)
DefaultBuffer == 300
StatusOK == 200
StatusUnauthorized == 401

None == <<>>
Some(v) == <<v>>

Calls == {"c1", "c2"}
SeqCalls == {"c1"}

Methods == {"list_workouts", "get_workout", "list_routes", "get_route",
            "list_plans", "get_plan", "list_power_zones", "get_power_zone"}

\* answers of the API: a status and, for a success, whether the body parses
ApiReplies == {[status |-> 200, body |-> "valid"], [status |-> 200, body |-> "invalid"],
               [status |-> 401, body |-> "error"], [status |-> 404, body |-> "error"],
               [status |-> 500, body |-> "error"]}
TickStep == DefaultBuffer
MaxNow == Now0 + TickStep

(***************************************************************************)
(* TokenData                                                               *)
(***************************************************************************)
Fields == {"access_token", "refresh_token", "code_verifier", "expires_at", "token_type"}

EmptyDict == [k \in {} |-> None]

FieldDefault(f) == IF f = "token_type" THEN Some("Bearer") ELSE None

\* `not self.expires_at`: None and 0 are both falsy
is_expired(rec, t, buffer_seconds) ==
    IF rec.expires_at = None \/ rec.expires_at = Some(0)
    THEN FALSE
    ELSE t >= rec.expires_at[1] - buffer_seconds

to_dict(rec) == [k \in {f \in Fields : rec[f] # None} |-> rec[k]]

\* cls(**...) raises TypeError when the required access_token key is missing
from_dict_raises(d) == "access_token" \notin DOMAIN d

from_dict(d) == [f \in Fields |-> IF f \in DOMAIN d THEN d[f] ELSE FieldDefault(f)]

(***************************************************************************)
(* TokenStore                                                              *)
(***************************************************************************)
NoFile == [kind |-> "none", doc |-> EmptyDict]
GarbageFile == [kind |-> "garbage", doc |-> EmptyDict]
JsonFile(d) == [kind |-> "json", doc |-> d]

\* mutant: only a missing file is handled
load_raises_uncaught(f) == f.kind = "garbage" \/ (f.kind = "json" /\ from_dict_raises(f.doc))

\* try/except Exception around open, json.load and from_dict: load never raises
load_raises(f) == FALSE

\* value returned by load(); on failure the cache is left as it is
load(f) ==
    IF f.kind = "json" /\ ~from_dict_raises(f.doc)
    THEN Some(from_dict(f.doc))
    ELSE None

\* mutant: the cache is never trusted
needs_load_always(c) == TRUE

\* `if not self._token_data`: a TokenData instance is always truthy, so only
\* None triggers the load
needs_load(c) == c = None

get_current(c, f) == IF needs_load(c) THEN load(f) ELSE c

\* mkdir or open fails, json.dump fails midway, os.chmod fails, or nothing fails
SaveOutcomes == {"ok", "open_fail", "write_fail", "chmod_fail"}

\* the file after save(rec) under the I/O outcome io
save_file(f, rec, io) ==
    CASE io = "ok" -> JsonFile(to_dict(rec))
      [] io = "open_fail" -> f
      [] io = "write_fail" -> GarbageFile
      [] io = "chmod_fail" -> JsonFile(to_dict(rec))

\* permission bits: os.chmod(..., 0o600); a file that open() creates gets the
\* process default
Mode600 == "0600"
ModeDefault == "0644"

\* mutant: the mode is only set when the file is created
save_mode_on_create(f, m, io) ==
    IF io = "open_fail" THEN m
    ELSE IF f.kind = "none"
         THEN IF io = "ok" THEN Some(Mode600) ELSE Some(ModeDefault)
         ELSE m

\* the permission mode of the file after save under the I/O outcome io
save_mode(f, m, io) ==
    IF io = "ok" THEN Some(Mode600)
    ELSE IF io = "open_fail" THEN m
         ELSE IF f.kind = "none" THEN Some(ModeDefault) ELSE m

\* mutant: the cache is only updated after a successful write
save_cache_after_write(c, rec, io) == IF io = "ok" THEN Some(rec) ELSE c

\* self._token_data = token_data is the first statement of save
save_cache(c, rec, io) == Some(rec)

\* mutant: the except clause is missing
save_raises_uncaught(io) == io # "ok"

\* try/except Exception around the whole write: save never raises
save_raises(io) == FALSE

\* mutant: the cache survives clear
clear_cache_kept(c) == c

\* self._token_data = None
clear_cache(c) == None

\* the file after clear: unlink may fail, which is logged
clear_file(f, unlinked) == IF f.kind # "none" /\ unlinked THEN NoFile ELSE f

\* TokenStore.__init__: ValueError for an empty path
store_init(path) == IF path # None /\ path # Some("") THEN "ready" ELSE "error"

update_raises(resp) ==
    \/ "expires_in" \in DOMAIN resp /\ resp["expires_in"] = None
    \/ "access_token" \notin DOMAIN resp

\* mutant: the prior expires_at survives a response without expires_in
update_from_response_keeps_expiry(c, resp, t) ==
    [access_token |-> resp["access_token"],
     refresh_token |-> IF "refresh_token" \in DOMAIN resp
                       THEN resp["refresh_token"]
                       ELSE IF c # None THEN c[1].refresh_token ELSE None,
     code_verifier |-> IF c # None THEN c[1].code_verifier ELSE None,
     expires_at |-> IF "expires_in" \in DOMAIN resp
                    THEN Some(t + resp["expires_in"][1])
                    ELSE IF c # None THEN c[1].expires_at ELSE None,
     token_type |-> IF "token_type" \in DOMAIN resp
                    THEN resp["token_type"]
                    ELSE Some("Bearer")]

\* mutant: the refresh_token of the response is ignored
update_from_response_keeps_refresh(c, resp, t) ==
    [access_token |-> resp["access_token"],
     refresh_token |-> IF c # None THEN c[1].refresh_token ELSE None,
     code_verifier |-> IF c # None THEN c[1].code_verifier ELSE None,
     expires_at |-> IF "expires_in" \in DOMAIN resp
                    THEN Some(t + resp["expires_in"][1])
                    ELSE None,
     token_type |-> IF "token_type" \in DOMAIN resp
                    THEN resp["token_type"]
                    ELSE Some("Bearer")]

update_from_response(c, resp, t) ==
    [access_token |-> resp["access_token"],
     refresh_token |-> IF "refresh_token" \in DOMAIN resp
                       THEN resp["refresh_token"]
                       ELSE IF c # None THEN c[1].refresh_token ELSE None,
     code_verifier |-> IF c # None THEN c[1].code_verifier ELSE None,
     expires_at |-> IF "expires_in" \in DOMAIN resp
                    THEN Some(t + resp["expires_in"][1])
                    ELSE None,
     token_type |-> IF "token_type" \in DOMAIN resp
                    THEN resp["token_type"]
                    ELSE Some("Bearer")]

(***************************************************************************)
(* WahooAPIClient                                                          *)
(***************************************************************************)
\* str() of an Optional[str] inside an f-string
Str(v) == IF v = None THEN "None" ELSE v[1]

\* mutant: the scheme prefix is lost
_get_headers_no_scheme(rec) == Str(rec.access_token)

_get_headers(rec) == "Bearer " \o Str(rec.access_token)

Truthy(v) == v # None /\ v # Some("")

\* mutant: the client identifier is not checked
refresh_precondition_no_client_check(td, client_id) ==
    /\ td # None
    /\ Truthy(td[1].refresh_token)

\* the two early returns of _refresh_access_token
refresh_precondition(td, client_id) ==
    /\ td # None
    /\ Truthy(td[1].refresh_token)
    /\ Truthy(client_id)

\* mutant: the verifier is attached whenever the record has one
refresh_body_both(rec, client_id, client_secret) ==
    LET base == ("client_id" :> client_id) @@ ("grant_type" :> Some("refresh_token"))
                @@ ("refresh_token" :> rec.refresh_token)
        withSecret == IF Truthy(client_secret)
                      THEN base @@ ("client_secret" :> client_secret)
                      ELSE base
    IN  IF Truthy(rec.code_verifier)
        THEN withSecret @@ ("code_verifier" :> rec.code_verifier)
        ELSE withSecret

\* the form data of the POST to /oauth/token
refresh_body(rec, client_id, client_secret) ==
    LET base == ("client_id" :> client_id) @@ ("grant_type" :> Some("refresh_token"))
                @@ ("refresh_token" :> rec.refresh_token)
    IN  IF Truthy(client_secret)
        THEN base @@ ("client_secret" :> client_secret)
        ELSE IF Truthy(rec.code_verifier)
             THEN base @@ ("code_verifier" :> rec.code_verifier)
             ELSE base

NetworkError == [kind |-> "exception", status |-> 0, parsed |-> FALSE, doc |-> EmptyDict]
TokenReply(s, p, d) == [kind |-> "response", status |-> s, parsed |-> p, doc |-> d]

\* mutant: the try block ends after the POST, so a bad 200 body propagates
refresh_result_uncaught(reply) ==
    IF reply.kind = "exception" THEN "False"
    ELSE IF reply.status = StatusOK
         THEN IF reply.parsed /\ ~update_raises(reply.doc) THEN "True" ELSE "raise"
         ELSE "False"

\* mutant: every 2xx answer is taken for a success
refresh_result_any_2xx(reply) ==
    IF reply.kind = "exception" THEN "False"
    ELSE IF reply.status >= 200 /\ reply.status <= 299
         THEN IF reply.parsed /\ ~update_raises(reply.doc) THEN "True" ELSE "False"
         ELSE "False"

\* what _refresh_access_token hands to its caller for a token-endpoint reply:
\* "True", "False", or "raise" when an exception would leave the method
refresh_result(reply) ==
    IF reply.kind = "exception" THEN "False"
    ELSE IF reply.status = StatusOK
         THEN IF reply.parsed /\ ~update_raises(reply.doc) THEN "True" ELSE "False"
         ELSE "False"

\* mutant: the default header is left as it was
header_after_refresh_stale(old, rec) == old

\* self.client.headers.update(self._get_headers()) after a successful refresh
header_after_refresh(old, rec) == _get_headers(rec)

\* mutant: the call is given up when _ensure_valid_token returns False
proceeds_after_ensure_strict(ok) == ok

\* the return value of _ensure_valid_token is discarded by every method
proceeds_after_ensure(ok) == TRUE

\* mutant: the 401 check is applied to every response
handles_401_every(attempt) == TRUE

\* the 401 branch is an if, not a loop: only the first response is examined
handles_401(attempt) == attempt = 1

\* mutant: every client error starts a refresh
triggers_refresh_4xx(status) == status >= 400 /\ status < 500

triggers_refresh(status) == status = StatusUnauthorized

\* mutant: only server errors raise
raise_for_status_5xx(status) == status >= 500

\* httpx Response.raise_for_status
raise_for_status(status) == ~(status >= 200 /\ status <= 299)

\* mutant: the request is retried whatever the refresh returned
retries_after_refresh_always(ok) == TRUE

\* after a reactive refresh: retry when it succeeded, raise otherwise
retries_after_refresh(ok) == ok

(***************************************************************************)
(* Inputs                                                                  *)
(***************************************************************************)
AccessTokens == <<"A1", "A2", "A3", "A4">>

InitDocs ==
    { ("access_token" :> Some("A0")) @@ r @@ v @@ e :
        r \in {EmptyDict, "refresh_token" :> Some("R0")},
        v \in {EmptyDict, "code_verifier" :> Some("V0")},
        e \in {EmptyDict, "expires_at" :> Some(0), "expires_at" :> Some(Now0 - 100),
               "expires_at" :> Some(Now0 + DefaultBuffer),
               "expires_at" :> Some(Now0 + DefaultBuffer + TickStep)} }
    \cup { EmptyDict, "refresh_token" :> Some("R0"),
           ("access_token" :> None) @@ ("refresh_token" :> Some("R0")) }

InitFiles == {NoFile, GarbageFile} \cup {JsonFile(d) : d \in InitDocs}

Envs == [token_file : {None, Some(""), Some("tokens.json")},
         client_id : {None, Some("cid")},
         client_secret : {None, Some("sec")}]

\* bodies of 200 replies of the token endpoint that carry the token tok
TokenDocs(tok) ==
    { "access_token" :> Some(tok),
      ("access_token" :> Some(tok)) @@ ("refresh_token" :> Some("R1"))
          @@ ("expires_in" :> Some(7200)),
      ("access_token" :> Some(tok)) @@ ("expires_in" :> Some(DefaultBuffer)),
      ("access_token" :> Some(tok)) @@ ("refresh_token" :> None),
      ("access_token" :> Some(tok)) @@ ("code_verifier" :> Some("V1"))
          @@ ("token_type" :> Some("MAC")),
      ("access_token" :> Some(tok)) @@ ("expires_in" :> None) }

\* replies that carry no fresh token
PlainReplies ==
    { NetworkError,
      TokenReply(400, TRUE, "error" :> Some("invalid_grant")),
      TokenReply(401, FALSE, EmptyDict),
      TokenReply(500, FALSE, EmptyDict),
      TokenReply(200, FALSE, EmptyDict),
      TokenReply(200, TRUE, EmptyDict),
      TokenReply(200, TRUE, "access_token" :> None),
      \* the token the client already holds is handed out again
      TokenReply(200, TRUE, "access_token" :> Some("A0")) }

IdleCall == [pc |-> "idle", method |-> "", reqs |-> <<>>, resps |-> <<>>,
             refreshCalls |-> 0, posts |-> 0, lastPost |-> EmptyDict,
             lastReply |-> NetworkError, lastResult |-> "none",
             ensured |-> "none", refreshed |-> "none",
             outcome |-> [kind |-> "none", msg |-> "", resp |-> 0]]

\* record of the last TokenStore operation made directly on the store
StoreIdle == [state |-> "none", path |-> None, ops |-> 0, op |-> "", argRec |-> None,
              argDoc |-> EmptyDict, prev |-> None, prevFile |-> NoFile,
              prevMode |-> None, ret |-> None, flag |-> FALSE,
              buffer |-> 0, raised |-> FALSE, io |-> "", saved |-> None,
              prevSaved |-> None, getLoads |-> 0, getHits |-> 0]

Init ==
    /\ env \in Envs
    /\ file \in InitFiles
    /\ fmode = IF file.kind = "none" THEN None ELSE Some(Mode600)
    /\ st = StoreIdle
    /\ cache = None
    /\ token_data = None
    /\ header = ""
    /\ client = "unconstructed"
    /\ now = Now0
    /\ issued = 0
    /\ started = 0
    /\ calls = [c \in Calls |-> IdleCall]

(***************************************************************************)
(* WahooAPIClient.__init__                                                 *)
(***************************************************************************)
\* mutant: the check of the loaded record is missing
construct_outcome_unchecked(token_file, cur) ==
    IF ~Truthy(token_file) THEN "error_no_token_file" ELSE "ready"

\* the two ValueErrors of __init__, in their order
construct_outcome(token_file, cur) ==
    IF ~Truthy(token_file) THEN "error_no_token_file"
    ELSE IF cur = None THEN "error_no_tokens"
         ELSE "ready"

\* the client builds its own TokenStore, whose cache starts empty
Construct ==
    /\ client = "unconstructed"
    /\ st.state = "none"
    /\ IF ~Truthy(env.token_file)
       THEN /\ client' = construct_outcome(env.token_file, None)
            /\ UNCHANGED <<cache, token_data, header>>
       ELSE LET cur == get_current(cache, file)
                out == construct_outcome(env.token_file, cur)
            IN  /\ cache' = cur
                /\ token_data' = cur
                /\ IF out = "ready"
                   THEN IF cur = None
                        \* _get_headers would fail on None.access_token
                        THEN client' = "error_attribute" /\ header' = header
                        ELSE client' = "ready" /\ header' = _get_headers(cur[1])
                   ELSE client' = out /\ header' = header
    /\ UNCHANGED <<env, file, fmode, now, issued, started, calls, st>>

(***************************************************************************)
(* One authenticated call (list_workouts, get_workout, ...): the steps     *)
(* between two awaits are one action.                                      *)
(***************************************************************************)
AuthFailedMsg == "Authentication failed and token refresh was unsuccessful"

Finish(call, kind, msg, resp) ==
    [call EXCEPT !.pc = "done", !.outcome = [kind |-> kind, msg |-> msg, resp |-> resp]]

\* self.client.get(...): the request carries the client's default header
SendGet(call, hdr) ==
    [call EXCEPT !.pc = "get",
                 !.reqs = Append(@, [target |-> call.method, auth |-> hdr])]

\* the POST to /oauth/token leaves; the coroutine suspends
SendPost(call, pc) ==
    [call EXCEPT !.pc = pc,
                 !.posts = @ + 1,
                 !.lastPost = refresh_body(token_data[1], env.client_id, env.client_secret)]

\* the statement after `await self._ensure_valid_token()`
AfterEnsure(call, ok, hdr) ==
    LET c1 == [call EXCEPT !.ensured = IF ok THEN "True" ELSE "False"]
    IN  IF proceeds_after_ensure(ok)
        THEN SendGet(c1, hdr)
        ELSE Finish(c1, "Aborted", "token is not valid", 0)

\* the branches of `if await self._refresh_access_token():` under the 401 check
AfterReactive(call, ok, hdr) ==
    LET c1 == [call EXCEPT !.refreshed = IF ok THEN "True" ELSE "False"]
    IN  IF retries_after_refresh(ok)
        THEN SendGet(c1, hdr)
        ELSE Finish(c1, "HTTPStatusError", AuthFailedMsg, Len(call.resps))

\* a method of the client is entered: _ensure_valid_token up to its first
\* await, or up to the GET when no refresh is attempted
CallBegin(c, m) ==
    /\ client = "ready"
    /\ calls[c].pc = "idle"
    /\ started' = started + 1
    /\ LET call == [IdleCall EXCEPT !.method = m]
       IN  IF token_data = None
           THEN calls' = [calls EXCEPT ![c] = AfterEnsure(call, FALSE, header)]
           ELSE IF is_expired(token_data[1], now, DefaultBuffer)
                THEN LET c1 == [call EXCEPT !.refreshCalls = @ + 1]
                     IN  IF refresh_precondition(token_data, env.client_id)
                         THEN calls' = [calls EXCEPT ![c] = SendPost(c1, "post_proactive")]
                         ELSE calls' = [calls EXCEPT ![c] = AfterEnsure(c1, FALSE, header)]
                ELSE calls' = [calls EXCEPT ![c] = AfterEnsure(call, TRUE, header)]
    /\ UNCHANGED <<env, file, fmode, cache, token_data, header, client, now, issued, st>>

\* call_tool serves one tool call after the other
StartCall(c, m) ==
    /\ started < MaxCalls
    /\ CallBegin(c, m)

FreshReplies ==
    IF issued < MaxIssued
    THEN {TokenReply(StatusOK, TRUE, d) : d \in TokenDocs(AccessTokens[issued + 1])}
         \cup {TokenReply(201, TRUE, "access_token" :> Some(AccessTokens[issued + 1]))}
    ELSE {}

\* the token endpoint answers (or the transport fails); the rest of
\* _refresh_access_token and the caller's next statements run up to the next await
PostReply(c, reply, io) ==
    /\ calls[c].pc \in {"post_proactive", "post_reactive"}
    /\ reply \in PlainReplies \cup FreshReplies
    /\ issued' = IF reply \in FreshReplies THEN issued + 1 ELSE issued
    /\ LET res == refresh_result(reply)
           new == update_from_response(cache, reply.doc, now)
           hdr == IF res = "True" THEN header_after_refresh(header, new) ELSE header
           c1 == [calls[c] EXCEPT !.lastReply = reply, !.lastResult = res]
       IN  /\ IF res = "True"
              THEN /\ cache' = save_cache(cache, new, io)
                   /\ file' = save_file(file, new, io)
                   /\ fmode' = save_mode(file, fmode, io)
                   /\ token_data' = Some(new)
                   /\ header' = hdr
              ELSE /\ io = "ok"
                   /\ UNCHANGED <<cache, file, fmode, token_data, header>>
           /\ IF res \notin {"True", "False"}
              THEN calls' = [calls EXCEPT ![c] = Finish(c1, "Exception", "refresh raised", 0)]
              ELSE IF calls[c].pc = "post_proactive"
                   THEN calls' = [calls EXCEPT ![c] = AfterEnsure(c1, res = "True", hdr)]
                   ELSE calls' = [calls EXCEPT ![c] = AfterReactive(c1, res = "True", hdr)]
    /\ UNCHANGED <<env, client, now, started, st>>

\* the API answers a GET
GetReply(c, resp) ==
    /\ calls[c].pc = "get"
    /\ LET attempt == Len(calls[c].resps) + 1
           status == resp.status
           body == resp.body
           c1 == [calls[c] EXCEPT !.resps = Append(@, resp)]
       IN  IF handles_401(attempt) /\ triggers_refresh(status)
           THEN LET c2 == [c1 EXCEPT !.refreshCalls = @ + 1]
                IN  IF refresh_precondition(token_data, env.client_id)
                    THEN calls' = [calls EXCEPT ![c] = SendPost(c2, "post_reactive")]
                    ELSE calls' = [calls EXCEPT ![c] = AfterReactive(c2, FALSE, header)]
           ELSE IF raise_for_status(status)
                THEN calls' = [calls EXCEPT ![c] = Finish(c1, "HTTPStatusError", "status", attempt)]
                ELSE IF body = "valid"
                     THEN calls' = [calls EXCEPT ![c] = Finish(c1, "data", "", attempt)]
                     ELSE calls' = [calls EXCEPT ![c] = Finish(c1, "ParseError", "", attempt)]
    /\ UNCHANGED <<env, file, fmode, cache, token_data, header, client, now, issued, started, st>>

\* the caller has taken the result; the client can serve another call
Return(c) ==
    /\ calls[c].pc = "done"
    /\ calls' = [calls EXCEPT ![c] = IdleCall]
    /\ UNCHANGED <<env, file, fmode, cache, token_data, header, client, now, issued, started, st>>

\* time.time() advances
Tick ==
    /\ now + TickStep <= MaxNow
    /\ now' = now + TickStep
    /\ UNCHANGED <<env, file, fmode, cache, token_data, header, client, issued, started, calls, st>>

(***************************************************************************)
(* call_tool: the client is built, the branch of the tool name runs, and   *)
(* the two except clauses turn an exception into a text item.              *)
(***************************************************************************)
\* the tools that read a required argument with arguments["..."]
ArgumentOf(m) ==
    CASE m = "get_workout" -> "workout_id"
      [] m = "get_route" -> "route_id"
      [] m = "get_plan" -> "plan_id"
      [] m = "get_power_zone" -> "power_zone_id"
      [] OTHER -> ""

GetMethods == {m \in Methods : ArgumentOf(m) # ""}

\* a name that matches no branch: the else branch returns a text
ToolUnknown(c) ==
    /\ client = "ready"
    /\ calls[c].pc = "idle"
    /\ started < MaxCalls
    /\ started' = started + 1
    /\ calls' = [calls EXCEPT ![c] =
                    Finish([IdleCall EXCEPT !.method = "no_such_tool"], "UnknownTool", "", 0)]
    /\ UNCHANGED <<env, file, fmode, cache, token_data, header, client, now, issued, st>>

\* arguments["workout_id"] on a dict without that key raises KeyError
\* before the client method is called
ToolMissingArgument(c, m) ==
    /\ client = "ready"
    /\ calls[c].pc = "idle"
    /\ started < MaxCalls
    /\ m \in GetMethods
    /\ started' = started + 1
    /\ calls' = [calls EXCEPT ![c] =
                    Finish([IdleCall EXCEPT !.method = m], "KeyError",
                           "'" \o ArgumentOf(m) \o "'", 0)]
    /\ UNCHANGED <<env, file, fmode, cache, token_data, header, client, now, issued, st>>

NoTokenFileMsg == "WAHOO_TOKEN_FILE environment variable is required"
NoTokensMsg(token_file) == "No valid tokens found in " \o Str(token_file)

\* the exception that leaves the try block of call_tool, if any
ToolException(cl, token_file, k) ==
    IF cl = "error_no_token_file"
    THEN [type |-> "ValueError", msg |-> NoTokenFileMsg]
    ELSE IF cl = "error_no_tokens"
         THEN [type |-> "ValueError", msg |-> NoTokensMsg(token_file)]
         ELSE IF k.outcome.kind \in {"data", "UnknownTool"}
              THEN [type |-> "none", msg |-> ""]
              ELSE [type |-> k.outcome.kind, msg |-> k.outcome.msg]

\* mutant: only HTTP errors are caught
except_clause_http_only(type) ==
    IF type = "HTTPStatusError" THEN "http" ELSE "propagate"

\* except httpx.HTTPStatusError, then except Exception
except_clause(type) ==
    IF type = "HTTPStatusError" THEN "http" ELSE "generic"

TextContent(head, status, tail) ==
    [type |-> "text", text |-> [head |-> head, status |-> status, tail |-> tail]]

\* what call_tool hands back for the call k made on a client in state cl;
\* the text is kept as the parts of its f-string
call_tool(cl, token_file, k) ==
    LET e == ToolException(cl, token_file, k)
    IN  IF e.type = "none"
        THEN [raised |-> FALSE,
              value |-> IF k.outcome.kind = "data"
                        THEN <<TextContent("result", 0, k.method)>>
                        ELSE <<TextContent("Unknown tool: ", 0, k.method)>>]
        ELSE IF except_clause(e.type) = "http"
             THEN [raised |-> FALSE,
                   value |-> <<TextContent("HTTP Error ", k.resps[k.outcome.resp].status,
                                           k.resps[k.outcome.resp].body)>>]
             ELSE IF except_clause(e.type) = "generic"
                  THEN [raised |-> FALSE, value |-> <<TextContent("Error: ", 0, e.msg)>>]
                  ELSE [raised |-> TRUE, value |-> <<>>]

Next ==
    \/ Construct
    \/ \E c \in SeqCalls, m \in Methods : StartCall(c, m)
    \/ \E c \in SeqCalls : ToolUnknown(c)
    \/ \E c \in SeqCalls, m \in GetMethods : ToolMissingArgument(c, m)
    \/ \E c \in SeqCalls, reply \in PlainReplies \cup FreshReplies, io \in SaveOutcomes :
          PostReply(c, reply, io)
    \/ \E c \in SeqCalls, resp \in ApiReplies : GetReply(c, resp)
    \/ \E c \in SeqCalls : Return(c)
    \/ Tick

Spec == Init /\ [][Next]_vars

TypeOK ==
    /\ client \in {"unconstructed", "ready", "error_no_token_file", "error_no_tokens"}
    /\ st.state \in {"none", "ready", "error"}
    /\ \A c \in Calls : calls[c].pc \in {"idle", "post_proactive", "get", "post_reactive", "done"}

(***************************************************************************)
(* Two calls on one client: each await hands control to the other           *)
(* coroutine, so the steps of the two calls interleave.                     *)
(***************************************************************************)
ConcurrentFiles ==
    { JsonFile(("access_token" :> Some("A0")) @@ ("refresh_token" :> Some("R0"))),
      JsonFile(("access_token" :> Some("A0")) @@ ("refresh_token" :> Some("R0"))
               @@ ("expires_at" :> Some(Now0 - 100))) }

InitConcurrent ==
    /\ env \in {e \in Envs : e.token_file = Some("tokens.json") /\ e.client_id = Some("cid")}
    /\ file \in ConcurrentFiles
    /\ fmode = Some(Mode600)
    /\ st = StoreIdle
    /\ cache = None
    /\ token_data = None
    /\ header = ""
    /\ client = "unconstructed"
    /\ now = Now0
    /\ issued = 0
    /\ started = 0
    /\ calls = [c \in Calls |-> IdleCall]

\* a second coroutine enters a method while the first one is suspended
StartConcurrent(c, m) ==
    /\ started < MaxConcurrent
    /\ CallBegin(c, m)

ConcurrentMethods == {"list_workouts", "get_workout"}

\* the token endpoint fails or hands out a fresh token
ConcurrentReplies ==
    {NetworkError}
    \cup {r \in FreshReplies : r.status = StatusOK /\ DOMAIN r.doc = {"access_token"}}

ConcurrentApiReplies == {r \in ApiReplies : r.status \in {200, 401} /\ r.body # "invalid"}

NextConcurrent ==
    \/ Construct
    \/ \E c \in Calls, m \in ConcurrentMethods : StartConcurrent(c, m)
    \/ \E c \in Calls, reply \in ConcurrentReplies, io \in {"ok"} :
          PostReply(c, reply, io)
    \/ \E c \in Calls, resp \in ConcurrentApiReplies : GetReply(c, resp)

SpecConcurrent == InitConcurrent /\ [][NextConcurrent]_vars

(***************************************************************************)
(* The TokenStore used on its own (as the bootstrap flow and the tests do): *)
(* one action per method, with the call and its result recorded in st.      *)
(***************************************************************************)
TokenData(a, r, v, e, t) ==
    [access_token |-> a, refresh_token |-> r, code_verifier |-> v, expires_at |-> e,
     token_type |-> t]

\* records handed to save
SaveRecords ==
    { TokenData(Some("A9"), None, None, None, Some("Bearer")),
      TokenData(Some("A9"), Some("R9"), Some("V9"), Some(Now0 + 200), Some("Bearer")),
      TokenData(Some("A9"), Some("R9"), None, Some(0), Some("Bearer")),
      TokenData(Some("A9"), None, Some("V9"), Some(Now0 - 1), None) }

\* token-endpoint bodies handed to update_from_response
UpdateDocs ==
    TokenDocs("A1") \cup {EmptyDict, "access_token" :> None}

Buffers == {0, 100, DefaultBuffer}

StorePaths == {None, Some(""), Some("tokens.json")}

StoreFiles ==
    { NoFile, GarbageFile,
      JsonFile("refresh_token" :> Some("R0")),
      JsonFile(("access_token" :> None) @@ ("refresh_token" :> Some("R0"))),
      JsonFile("access_token" :> Some("A0")),
      JsonFile(("access_token" :> Some("A0")) @@ ("refresh_token" :> Some("R0"))
               @@ ("code_verifier" :> Some("V0")) @@ ("expires_at" :> Some(0))),
      JsonFile(("access_token" :> Some("A0")) @@ ("refresh_token" :> Some("R0"))
               @@ ("code_verifier" :> Some("V0"))
               @@ ("expires_at" :> Some(Now0 + DefaultBuffer))
               @@ ("scope" :> Some("user_read"))) }

InitStore ==
    /\ env \in {e \in Envs : e.client_id = None /\ e.client_secret = None}
    /\ file \in StoreFiles
    /\ fmode \in IF file.kind = "none" THEN {None} ELSE {Some(Mode600), Some(ModeDefault)}
    /\ st = StoreIdle
    /\ cache = None
    /\ token_data = None
    /\ header = ""
    /\ client = "unconstructed"
    /\ now \in {Now0, MaxNow}
    /\ issued = 0
    /\ started = 0
    /\ calls = [c \in Calls |-> IdleCall]

StoreOp(name) ==
    [st EXCEPT !.ops = @ + 1, !.op = name, !.argRec = None, !.argDoc = EmptyDict,
               !.prev = cache, !.prevFile = file, !.prevMode = fmode,
               !.ret = None, !.flag = FALSE,
               !.buffer = 0, !.raised = FALSE, !.io = "",
               !.prevSaved = st.saved, !.saved = None]

StoreReady == st.state = "ready" /\ st.ops < MaxOps

NotStore == <<env, token_data, header, client, now, issued, started, calls>>

\* TokenStore(path)
StoreNew(path) ==
    /\ st.state = "none"
    /\ client = "unconstructed"
    /\ st' = [st EXCEPT !.state = store_init(path), !.path = path]
    /\ UNCHANGED <<file, fmode, cache>>
    /\ UNCHANGED NotStore

\* store.load()
StoreLoad ==
    /\ StoreReady
    /\ LET r == load(file)
       IN  IF load_raises(file)
           THEN /\ st' = [StoreOp("load") EXCEPT !.raised = TRUE]
                /\ cache' = cache
           ELSE /\ st' = [StoreOp("load") EXCEPT !.ret = r]
                /\ cache' = IF r # None THEN r ELSE cache
    /\ UNCHANGED <<file, fmode>>
    /\ UNCHANGED NotStore

\* store.save(x)
StoreSave(x, io) ==
    /\ StoreReady
    /\ cache' = save_cache(cache, x, io)
    /\ file' = save_file(file, x, io)
    /\ fmode' = save_mode(file, fmode, io)
    /\ st' = [StoreOp("save") EXCEPT !.argRec = Some(x), !.io = io,
                                     !.raised = save_raises(io),
                                     !.saved = IF io = "ok" THEN Some(x) ELSE None]
    /\ UNCHANGED NotStore

\* store.update_from_response(resp): a KeyError or TypeError leaves the method
StoreUpdate(resp, io) ==
    /\ StoreReady
    /\ IF update_raises(resp)
       THEN /\ io = "ok"
            /\ st' = [StoreOp("update_from_response") EXCEPT !.argDoc = resp, !.raised = TRUE]
            /\ UNCHANGED <<file, fmode, cache>>
       ELSE LET new == update_from_response(cache, resp, now)
            IN  /\ cache' = save_cache(cache, new, io)
                /\ file' = save_file(file, new, io)
                /\ fmode' = save_mode(file, fmode, io)
                /\ st' = [StoreOp("update_from_response") EXCEPT
                             !.argDoc = resp, !.io = io, !.ret = Some(new),
                             !.raised = save_raises(io),
                             !.saved = IF io = "ok" THEN Some(new) ELSE None]
    /\ UNCHANGED NotStore

\* store.get_current()
StoreGetCurrent ==
    /\ StoreReady
    /\ LET loads == needs_load(cache)
           r == get_current(cache, file)
       IN  /\ cache' = r
           /\ st' = [StoreOp("get_current") EXCEPT
                        !.ret = r, !.flag = loads,
                        !.raised = loads /\ load_raises(file),
                        !.getLoads = IF loads THEN @ + 1 ELSE @,
                        !.getHits = IF loads /\ r # None THEN @ + 1 ELSE @]
    /\ UNCHANGED <<file, fmode>>
    /\ UNCHANGED NotStore

\* store.clear(): unlink is attempted only when the file exists
StoreClear(unlinked) ==
    /\ StoreReady
    /\ unlinked => file.kind # "none"
    /\ cache' = clear_cache(cache)
    /\ file' = clear_file(file, unlinked)
    /\ fmode' = IF clear_file(file, unlinked).kind = "none" THEN None ELSE fmode
    /\ st' = [StoreOp("clear") EXCEPT !.flag = unlinked, !.getLoads = 0, !.getHits = 0]
    /\ UNCHANGED NotStore

\* record.is_expired(buffer) on the cached record
StoreIsExpired(buffer) ==
    /\ StoreReady
    /\ cache # None
    /\ st' = [StoreOp("is_expired") EXCEPT
                 !.buffer = buffer, !.flag = is_expired(cache[1], now, buffer)]
    /\ UNCHANGED <<file, fmode, cache>>
    /\ UNCHANGED NotStore

NextStore ==
    \/ Construct
    \/ \E path \in StorePaths : StoreNew(path)
    \/ StoreLoad
    \/ \E x \in SaveRecords, io \in SaveOutcomes : StoreSave(x, io)
    \/ \E resp \in UpdateDocs, io \in SaveOutcomes : StoreUpdate(resp, io)
    \/ StoreGetCurrent
    \/ \E unlinked \in BOOLEAN : StoreClear(unlinked)
    \/ \E buffer \in Buffers : StoreIsExpired(buffer)

SpecStore == InitStore /\ [][NextStore]_vars

(***************************************************************************)
(* Properties                                                              *)
(***************************************************************************)
SuccessStatus(s) == s >= 200 /\ s <= 299

PostPending(k) == k.pc \in {"post_proactive", "post_reactive"}

\* C1: after a first 401 and a successful refresh the same request is sent
\* exactly once more, and the answer to it ends the call: no further request,
\* no further refresh, whatever its status.
C1_RetryOnceFinal ==
    [][\A c \in Calls :
        LET k == calls[c]
            k2 == calls'[c]
        IN  /\ (k.pc = "post_reactive" /\ k2.refreshed = "True") =>
                  /\ k2.pc = "get"
                  /\ k.resps[1].status = StatusUnauthorized
                  /\ Len(k.reqs) = 1 /\ Len(k2.reqs) = 2
                  /\ k2.reqs[2].target = k2.reqs[1].target
            /\ (k.refreshed = "True" /\ k.pc = "get" /\ k2 # k) =>
                  /\ k2.pc = "done"
                  /\ k2.reqs = k.reqs
                  /\ k2.refreshCalls = k.refreshCalls
                  /\ k2.posts = k.posts
                  /\ Len(k2.resps) = 2
                  /\ k2.outcome.resp = 2
                  /\ k2.outcome.kind = IF SuccessStatus(k2.resps[2].status)
                                       THEN IF k2.resps[2].body = "valid"
                                            THEN "data" ELSE "ParseError"
                                       ELSE "HTTPStatusError"
                  /\ k2.outcome.msg # AuthFailedMsg
            /\ (k.refreshed = "True" /\ k.pc = "done") => k2 \in {k, IdleCall}
      ]_vars

C1_Witness ==
    \E c \in Calls :
        /\ calls[c].refreshed = "True"
        /\ calls[c].pc = "done"
        /\ Len(calls[c].resps) = 2
        /\ calls[c].resps[2].status = StatusUnauthorized
        /\ calls[c].outcome.kind = "HTTPStatusError"

\* C2: a 401 followed by a failed refresh ends the call with the
\* authentication-failure error that carries the 401 response; the call has
\* made exactly one API request.
C2_AuthFailedNoRetry ==
    \A c \in Calls :
        calls[c].refreshed = "False" =>
            /\ calls[c].pc = "done"
            /\ Len(calls[c].reqs) = 1
            /\ Len(calls[c].resps) = 1
            /\ calls[c].resps[1].status = StatusUnauthorized
            /\ calls[c].outcome =
                  [kind |-> "HTTPStatusError", msg |-> AuthFailedMsg, resp |-> 1]

C2_Witness ==
    \E c \in Calls :
        /\ calls[c].refreshed = "False"
        /\ calls[c].posts >= 1
        /\ calls[c].lastReply.kind = "response"
        /\ calls[c].lastReply.status = 400
        /\ calls[c].pc = "done"

\* C3: data is returned only from a last response with a success status.
C3_DataOnlyOnSuccess ==
    \A c \in Calls :
        LET k == calls[c]
        IN  /\ k.outcome.kind = "data" =>
                  /\ Len(k.resps) >= 1
                  /\ k.outcome.resp = Len(k.resps)
                  /\ SuccessStatus(k.resps[Len(k.resps)].status)
            /\ (k.pc = "done" /\ Len(k.resps) >= 1
                  /\ ~SuccessStatus(k.resps[Len(k.resps)].status)) =>
                  k.outcome.kind = "HTTPStatusError"

C3_Witness ==
    \E c \in Calls :
        /\ calls[c].outcome.kind = "data"
        /\ calls[c].ensured = "False"
        /\ calls[c].refreshed = "True"

\* C4: as the call starts, a refresh is attempted exactly when expires_at is
\* set and now >= expires_at - 300.
C4_ProactiveIffExpired ==
    [][\A c \in Calls :
        (calls[c].pc = "idle" /\ calls'[c].pc # "idle") =>
            ((calls'[c].refreshCalls = 1) <=>
             (/\ token_data # None
              /\ token_data[1].expires_at # None
              /\ now >= token_data[1].expires_at[1] - 300))
      ]_vars

\* C5: a failed proactive refresh does not end the call: the request goes out
\* with the bearer header of the unchanged record, and an authentication
\* failure arises only from a 401 answer to it.
C5_ProceedsAfterFailedEnsure ==
    \A c \in Calls :
        LET k == calls[c]
        IN  /\ k.outcome.kind # "Aborted"
            /\ k.ensured = "False" => Len(k.reqs) >= 1
            /\ (k.ensured = "False" /\ k.pc = "get" /\ Len(k.resps) = 0) =>
                  /\ k.reqs[1].auth = header
                  /\ header = "Bearer " \o Str(token_data[1].access_token)
            /\ k.outcome.msg = AuthFailedMsg =>
                  k.resps[1].status = StatusUnauthorized

C5_Witness ==
    \E c \in Calls :
        /\ calls[c].ensured = "False"
        /\ calls[c].posts = 1
        /\ calls[c].refreshed = "none"
        /\ calls[c].outcome.kind = "data"

\* C6: a first answer that is neither a success nor a 401 ends the call with
\* the HTTP error for that response; no refresh, no retry, and the token
\* record, the store and the header stay as they are.
C6_OtherErrorSurfaced ==
    [][\A c \in Calls :
        LET k == calls[c]
            k2 == calls'[c]
        IN  (/\ k.pc = "get" /\ Len(k.resps) = 0 /\ Len(k2.resps) = 1
             /\ ~SuccessStatus(k2.resps[1].status)
             /\ k2.resps[1].status # 401) =>
                /\ k2.pc = "done"
                /\ k2.outcome = [kind |-> "HTTPStatusError", msg |-> "status", resp |-> 1]
                /\ k2.refreshCalls = k.refreshCalls
                /\ k2.posts = k.posts
                /\ k2.reqs = k.reqs
                /\ UNCHANGED <<cache, file, fmode, token_data, header>>
      ]_vars

C6_Witness ==
    \E c \in Calls :
        /\ calls[c].pc = "done"
        /\ Len(calls[c].resps) = 1
        /\ calls[c].resps[1].status = 404
        /\ calls[c].outcome.kind = "HTTPStatusError"
        /\ calls[c].outcome.resp = 1

\* C7: a refresh invoked on a record without refresh_token, or without a
\* configured client id, returns failure and sends no POST.
C7_NoPostWithoutPrecondition ==
    [][\A c \in Calls :
        LET k == calls[c]
            k2 == calls'[c]
        IN  (/\ k2.refreshCalls = k.refreshCalls + 1
             /\ \/ token_data = None
                \/ token_data[1].refresh_token = None
                \/ env.client_id = None) =>
                /\ k2.posts = k.posts
                /\ ~PostPending(k2)
                /\ IF k.pc = "idle" THEN k2.ensured = "False" ELSE k2.refreshed = "False"
                /\ UNCHANGED <<cache, file, fmode, token_data, header>>
      ]_vars

C7_Witness ==
    \E c \in Calls :
        /\ calls[c].refreshCalls = 1
        /\ calls[c].posts = 0
        /\ calls[c].refreshed = "False"
        /\ env.client_id = None
        /\ token_data[1].refresh_token # None

\* C8: the refresh hands back a boolean for every answer of the token
\* endpoint, never an exception, and True only after a 200.
C8_RefreshNeverRaises ==
    \A c \in Calls :
        LET k == calls[c]
        IN  /\ k.lastResult \in {"none", "True", "False"}
            /\ k.outcome.kind # "Exception"
            /\ k.lastResult = "True" =>
                  k.lastReply.kind = "response" /\ k.lastReply.status = 200
            /\ (k.lastResult # "none"
                  /\ (\/ k.lastReply.kind = "exception"
                      \/ k.lastReply.status # 200
                      \/ ~k.lastReply.parsed
                      \/ "access_token" \notin DOMAIN k.lastReply.doc)) =>
                  k.lastResult = "False"

C8_Witness ==
    \E c \in Calls :
        /\ calls[c].lastResult = "False"
        /\ calls[c].lastReply.kind = "response"
        /\ calls[c].lastReply.status = 200
        /\ ~calls[c].lastReply.parsed

\* C9 as stated: every 200 answer makes the refresh succeed, with the
\* response's access token in the store and in the header.
C9_Original ==
    \A c \in Calls :
        LET k == calls[c]
        IN  (k.lastResult # "none" /\ k.lastReply.kind = "response"
               /\ k.lastReply.status = 200) =>
                /\ k.lastResult = "True"
                /\ cache # None
                /\ cache[1].access_token = k.lastReply.doc["access_token"]
                /\ header = "Bearer " \o Str(k.lastReply.doc["access_token"])

\* C9 amended: a 200 answer whose body is a JSON object with a string
\* access_token and no non-numeric expires_in makes the refresh succeed;
\* afterwards the store's record holds that access token and the header is
\* "Bearer " followed by it.
C9_RefreshInstallsToken ==
    \A c \in Calls :
        LET k == calls[c]
            d == k.lastReply.doc
        IN  (/\ k.lastResult # "none"
             /\ k.lastReply.kind = "response"
             /\ k.lastReply.status = 200
             /\ k.lastReply.parsed
             /\ "access_token" \in DOMAIN d
             /\ d["access_token"] # None
             /\ ~("expires_in" \in DOMAIN d /\ d["expires_in"] = None)) =>
                /\ k.lastResult = "True"
                /\ cache # None
                /\ cache[1].access_token = d["access_token"]
                /\ header = "Bearer " \o d["access_token"][1]

C9_Witness ==
    \E c \in Calls :
        /\ calls[c].lastResult = "True"
        /\ calls[c].lastReply.status = 200
        /\ cache # None
        /\ cache[1].access_token = Some("A1")
        /\ header = "Bearer A1"
        /\ file.kind # "json"

RefreshBaseKeys == {"client_id", "grant_type", "refresh_token"}

\* C10 as stated: the body always has exactly one of client_secret and
\* code_verifier.
C10_Original ==
    \A c \in Calls :
        LET k == calls[c]
            b == k.lastPost
        IN  PostPending(k) =>
                /\ RefreshBaseKeys \subseteq DOMAIN b
                /\ b["client_id"] = env.client_id
                /\ b["grant_type"] = Some("refresh_token")
                /\ b["refresh_token"] = token_data[1].refresh_token
                /\ ("client_secret" \in DOMAIN b) # ("code_verifier" \in DOMAIN b)
                /\ env.client_secret # None => "client_secret" \in DOMAIN b
                /\ (env.client_secret = None /\ token_data[1].code_verifier # None) =>
                      "code_verifier" \in DOMAIN b

\* C10 amended: the body has client_id, grant_type=refresh_token and the
\* current refresh_token, plus at most one of client_secret and code_verifier:
\* the configured client secret if there is one, otherwise the record's
\* code_verifier if it has one, otherwise neither; never both.
C10_RefreshBody ==
    \A c \in Calls :
        LET k == calls[c]
            b == k.lastPost
        IN  PostPending(k) =>
                /\ b["client_id"] = env.client_id /\ env.client_id # None
                /\ b["grant_type"] = Some("refresh_token")
                /\ b["refresh_token"] = token_data[1].refresh_token
                /\ token_data[1].refresh_token # None
                /\ DOMAIN b =
                      RefreshBaseKeys \cup
                      (IF env.client_secret # None THEN {"client_secret"}
                       ELSE IF token_data[1].code_verifier # None THEN {"code_verifier"}
                       ELSE {})
                /\ "client_secret" \in DOMAIN b => b["client_secret"] = env.client_secret
                /\ "code_verifier" \in DOMAIN b =>
                      b["code_verifier"] = token_data[1].code_verifier

C10_Witness ==
    \E c \in Calls :
        /\ PostPending(calls[c])
        /\ env.client_secret # None
        /\ token_data[1].code_verifier # None
        /\ "client_secret" \in DOMAIN calls[c].lastPost
        /\ "code_verifier" \notin DOMAIN calls[c].lastPost

(***************************************************************************)
(* Properties of the TokenStore                                            *)
(***************************************************************************)
\* the cached record's field f before the operation, None without a record
PrevField(f) == IF st.prev # None THEN st.prev[1][f] ELSE None

\* C11: update_from_response returns and caches (and, the write succeeding,
\* stores) a new record with the response's access_token, the response's
\* refresh_token when it has one and the cached one otherwise, the cached
\* code_verifier, expires_at = now + expires_in when the response has
\* expires_in and none otherwise, and the response's token_type, default Bearer.
C11_UpdateBuildsRecord ==
    (st.op = "update_from_response" /\ ~st.raised) =>
        LET d == st.argDoc
        IN  /\ st.ret # None
            /\ cache = st.ret
            /\ st.io = "ok" => file = JsonFile(to_dict(st.ret[1]))
            /\ st.ret[1].access_token = d["access_token"]
            /\ st.ret[1].refresh_token =
                   (IF "refresh_token" \in DOMAIN d THEN d["refresh_token"]
                    ELSE PrevField("refresh_token"))
            /\ st.ret[1].code_verifier = PrevField("code_verifier")
            /\ st.ret[1].expires_at =
                   (IF "expires_in" \in DOMAIN d THEN Some(now + d["expires_in"][1])
                    ELSE None)
            /\ st.ret[1].token_type =
                   (IF "token_type" \in DOMAIN d THEN d["token_type"]
                    ELSE Some("Bearer"))

C11_Witness ==
    /\ st.op = "update_from_response"
    /\ ~st.raised
    /\ st.prev # None
    /\ st.prev[1].expires_at # None
    /\ st.prev[1].refresh_token = Some("R0")
    /\ DOMAIN st.argDoc = {"access_token"}
    /\ st.ret # None
    /\ st.ret[1].expires_at = None
    /\ st.ret[1].refresh_token = Some("R0")
    /\ st.ret[1].code_verifier = Some("V0")

\* C12 as stated: after a successful refresh the new record has the
\* response's refresh_token and code_verifier when the response supplies
\* them, and the prior record's otherwise.
C12_Original ==
    [][\A c \in Calls :
          (PostPending(calls[c]) /\ calls'[c].lastResult = "True") =>
              LET d == calls'[c].lastReply.doc
              IN  /\ cache' # None
                  /\ cache'[1].refresh_token =
                         (IF "refresh_token" \in DOMAIN d THEN d["refresh_token"]
                          ELSE IF cache # None THEN cache[1].refresh_token ELSE None)
                  /\ cache'[1].code_verifier =
                         (IF "code_verifier" \in DOMAIN d THEN d["code_verifier"]
                          ELSE IF cache # None THEN cache[1].code_verifier ELSE None)
      ]_vars

\* C12 amended: after a successful refresh the new record has the response's
\* refresh_token when the response supplies one and the prior record's
\* otherwise; its code_verifier is the prior record's, whatever the response
\* holds.
C12_RefreshInheritance ==
    [][\A c \in Calls :
          (PostPending(calls[c]) /\ calls'[c].lastResult = "True") =>
              LET d == calls'[c].lastReply.doc
              IN  /\ cache' # None
                  /\ token_data' = cache'
                  /\ cache'[1].refresh_token =
                         (IF "refresh_token" \in DOMAIN d THEN d["refresh_token"]
                          ELSE IF cache # None THEN cache[1].refresh_token ELSE None)
                  /\ cache'[1].code_verifier =
                         (IF cache # None THEN cache[1].code_verifier ELSE None)
      ]_vars

C12_Witness ==
    \E c \in Calls :
        /\ calls[c].lastResult = "True"
        /\ "code_verifier" \in DOMAIN calls[c].lastReply.doc
        /\ calls[c].lastReply.doc["code_verifier"] = Some("V1")
        /\ cache # None
        /\ cache[1].code_verifier = Some("V0")
        /\ cache[1].refresh_token = Some("R0")

\* C13: is_expired(buffer) is false without expires_at and otherwise true
\* exactly when now >= expires_at - buffer, for every present expires_at.
C13_IsExpired ==
    st.op = "is_expired" =>
        (st.flag <=> (/\ cache[1].expires_at # None
                      /\ now >= cache[1].expires_at[1] - st.buffer))

\* C14: load() right after a save(x) that met no I/O failure returns a record
\* equal to x in every field x has, and the file written holds exactly the
\* fields x has.
C14_RoundTrip ==
    /\ st.saved # None =>
           /\ file.kind = "json"
           /\ DOMAIN file.doc = {f \in Fields : st.saved[1][f] # None}
    /\ (st.op = "load" /\ st.prevSaved # None) =>
           /\ st.ret # None
           /\ \A f \in Fields :
                  st.prevSaved[1][f] # None => st.ret[1][f] = st.prevSaved[1][f]

\* a file that holds a JSON document with an access_token key
ValidDocument(f) == f.kind = "json" /\ "access_token" \in DOMAIN f.doc

\* C15: load never raises; without a file, or with a file that is not JSON or
\* has no access_token, it returns no record and leaves the cache alone; with
\* a valid document it returns the record read from it and caches it.
C15_LoadFailsSoft ==
    st.op = "load" =>
        /\ ~st.raised
        /\ ~ValidDocument(st.prevFile) => (st.ret = None /\ cache = st.prev)
        /\ ValidDocument(st.prevFile) =>
               /\ st.ret # None
               /\ cache = st.ret
               /\ \A f \in Fields :
                      st.ret[1][f] = (IF f \in DOMAIN st.prevFile.doc
                                      THEN st.prevFile.doc[f]
                                      ELSE FieldDefault(f))

C15_Witness ==
    /\ st.op = "load"
    /\ st.prevFile.kind = "json"
    /\ "access_token" \notin DOMAIN st.prevFile.doc
    /\ st.ret = None
    /\ ~st.raised

\* C16: save never raises and leaves the given record in the cache whatever
\* happens to the directory, the write or the chmod; get_current() then
\* returns that record even when the file does not hold it.
C16_SaveAlwaysCaches ==
    st.op = "save" =>
        /\ ~st.raised
        /\ cache = st.argRec
        /\ get_current(cache, file) = st.argRec

C16_Witness ==
    /\ st.op = "save"
    /\ st.io = "write_fail"
    /\ ~st.raised
    /\ cache = st.argRec
    /\ file # JsonFile(to_dict(st.argRec[1]))

\* C17: after a save that met no I/O error the token file exists with mode
\* 0600, whatever its mode was and whether or not it existed.
C17_SavedFileIsPrivate ==
    (st.op \in {"save", "update_from_response"} /\ st.io = "ok" /\ ~st.raised) =>
        /\ file.kind = "json"
        /\ fmode = Some(Mode600)

C17_Witness ==
    /\ st.op = "save"
    /\ st.io = "ok"
    /\ st.prevFile.kind # "none"
    /\ st.prevMode = Some(ModeDefault)
    /\ fmode = Some(Mode600)

\* what get_current does with the cache it finds: read the file exactly when
\* the cache is empty, return the cached record otherwise
GetCurrentByCache ==
    st.op = "get_current" =>
        /\ st.flag <=> (st.prev = None)
        /\ st.prev # None => (st.ret = st.prev /\ cache = st.prev)
        /\ st.prev = None => (st.ret = load(file) /\ cache = st.ret)

\* C18 as stated: get_current reads the file exactly when the cache is empty,
\* and does so at most once between construction or clear and the next clear.
C18_Original ==
    /\ GetCurrentByCache
    /\ st.getLoads <= 1

\* C18 amended: get_current reads the file exactly when the cache is empty;
\* between construction or clear and the next clear at most one of its loads
\* yields a record, while a load that yields none is repeated by the next call.
C18_LoadsUntilRecord ==
    /\ GetCurrentByCache
    /\ st.getHits <= 1
    /\ (st.op = "get_current" /\ st.flag /\ st.ret = None) => needs_load(cache)

C18_Witness ==
    /\ st.op = "get_current"
    /\ st.prev # None
    /\ ~st.flag
    /\ st.ret = st.prev
    /\ st.getLoads = 1
    /\ st.getHits = 1

\* C19 as stated: clear never raises, empties the cache and leaves no file,
\* and get_current() afterwards returns no record.
C19_Original ==
    st.op = "clear" =>
        /\ ~st.raised
        /\ cache = None
        /\ file.kind = "none"
        /\ get_current(cache, file) = None

\* C19 amended: clear never raises and empties the cache; when there was no
\* file or the deletion succeeded no file is left and get_current() returns
\* no record; when the deletion failed the file stays as it was and
\* get_current() returns what load makes of it.
C19_ClearDropsCache ==
    st.op = "clear" =>
        /\ ~st.raised
        /\ cache = None
        /\ (st.flag \/ st.prevFile.kind = "none") =>
               (file = NoFile /\ fmode = None /\ get_current(cache, file) = None)
        /\ (~st.flag /\ st.prevFile.kind # "none") =>
               (file = st.prevFile /\ get_current(cache, file) = load(st.prevFile))

C19_Witness ==
    /\ st.op = "clear"
    /\ st.prev # None
    /\ ValidDocument(st.prevFile)
    /\ st.flag
    /\ cache = None
    /\ file = NoFile

\* C20: a constructed client has a token file path and a token record; when
\* no path is configured or the store yields no record, construction ends in
\* a configuration error with no HTTP client created; a TokenStore is ready
\* exactly when its path is not empty.
C20_NoClientWithoutTokens ==
    /\ client \in {"unconstructed", "ready", "error_no_token_file", "error_no_tokens"}
    /\ client = "ready" =>
           (Truthy(env.token_file) /\ token_data # None /\ header # "")
    /\ client = "error_no_token_file" =>
           (~Truthy(env.token_file) /\ token_data = None /\ header = "")
    /\ client = "error_no_tokens" =>
           (Truthy(env.token_file) /\ token_data = None /\ header = "")
    /\ (client # "unconstructed" /\ ~Truthy(env.token_file)) =>
           client = "error_no_token_file"
    /\ (client # "unconstructed" /\ token_data = None) => client # "ready"
    /\ st.state = "ready" => Truthy(st.path)
    /\ st.state = "error" => ~Truthy(st.path)

C20_Witness ==
    /\ client = "error_no_tokens"
    /\ file.kind = "json"
    /\ token_data = None
    /\ header = ""

(***************************************************************************)
(* Properties of records, concurrency and the tool boundary                *)
(***************************************************************************)
\* C21: every record held by the store's cache or by the client has an
\* access_token that is present and not null.
C21_AccessTokenPresent ==
    /\ cache # None => cache[1].access_token # None
    /\ token_data # None => token_data[1].access_token # None

\* call_tool has returned or raised: construction failed, or the call ended
ToolFinished(c) ==
    \/ client \in {"error_no_token_file", "error_no_tokens"}
    \/ calls[c].pc = "done"

\* C24: whatever ends a tool call (no token file configured, no loadable
\* token, an HTTP error, an authentication failure, an unknown tool name, a
\* missing argument, or data), call_tool raises nothing and returns a list
\* of exactly one text item.
C24_CallToolAlwaysReturnsText ==
    \A c \in SeqCalls :
        ToolFinished(c) =>
            LET r == call_tool(client, env.token_file, calls[c])
            IN  /\ ~r.raised
                /\ Len(r.value) = 1
                /\ r.value[1].type = "text"
                /\ r.value[1].text.head
                       \in {"result", "Unknown tool: ", "HTTP Error ", "Error: "}

C24_Witness ==
    \E c \in SeqCalls :
        /\ calls[c].pc = "done"
        /\ calls[c].outcome.kind = "KeyError"
        /\ call_tool(client, env.token_file, calls[c]).value
               = <<TextContent("Error: ", 0, "'workout_id'")>>

\* how far a call has come: every step of a call moves it up this scale
CallRank(k) ==
    CASE k.pc = "idle" -> 0
      [] k.pc = "post_proactive" -> 1
      [] k.pc = "get" -> IF Len(k.reqs) <= 1 THEN 2 ELSE 4
      [] k.pc = "post_reactive" -> 3
      [] OTHER -> 5

\* the call has taken a step (handing the result back is not one)
CallStepped(k, k2) == k2 # k /\ k.pc # "done"

\* a step never goes back, and the requests and refresh attempts stay within two
BoundedProgress(k, k2) ==
    /\ CallRank(k2) > CallRank(k)
    /\ Len(k2.reqs) <= 2
    /\ k2.refreshCalls <= 2
    /\ k2.posts <= 2

ProactiveFailedNow(k, k2) == k.ensured = "none" /\ k2.ensured = "False"
ReactiveFailedNow(k, k2) == k.refreshed = "none" /\ k2.refreshed = "False"

\* C25 as stated: every step of a call makes progress on a scale of five
\* positions, with at most two requests and two refresh attempts, and the
\* step in which a refresh fails ends the call without a further request.
C25_Original ==
    [][\A c \in Calls :
          CallStepped(calls[c], calls'[c]) =>
              /\ BoundedProgress(calls[c], calls'[c])
              /\ (ProactiveFailedNow(calls[c], calls'[c])
                    \/ ReactiveFailedNow(calls[c], calls'[c])) =>
                     (calls'[c].reqs = calls[c].reqs /\ calls'[c].pc = "done")
      ]_vars

\* C25 amended: every step of a call makes progress on a scale of five
\* positions, with at most two requests and two refresh attempts; a failed
\* refresh after a 401 ends the call without a further request, while a
\* failed proactive refresh is followed by the call's request.
C25_BoundedCall ==
    [][\A c \in Calls :
          CallStepped(calls[c], calls'[c]) =>
              /\ BoundedProgress(calls[c], calls'[c])
              /\ ReactiveFailedNow(calls[c], calls'[c]) =>
                     /\ calls'[c].reqs = calls[c].reqs
                     /\ calls'[c].pc = "done"
                     /\ calls'[c].outcome.msg = AuthFailedMsg
              /\ ProactiveFailedNow(calls[c], calls'[c]) =>
                     /\ calls'[c].pc = "get"
                     /\ Len(calls'[c].reqs) = 1
      ]_vars

C25_Witness ==
    \E c \in Calls :
        /\ calls[c].pc = "done"
        /\ calls[c].ensured = "False"
        /\ calls[c].refreshed = "False"
        /\ calls[c].posts = 2
        /\ Len(calls[c].reqs) = 1

\* C27: on a constructed client the default Authorization header is
\* "Bearer " followed by the access_token of the client's record (as str()
\* renders it), and that record is the one in the store's cache.
C27_HeaderMatchesRecord ==
    client = "ready" =>
        /\ token_data # None
        /\ header = "Bearer " \o Str(token_data[1].access_token)
        /\ token_data = cache

C27_Witness ==
    \E c \in Calls :
        /\ client = "ready"
        /\ calls[c].lastResult = "True"
        /\ header = "Bearer A1"
        /\ cache = token_data
        /\ file # JsonFile(to_dict(token_data[1]))

\* a reply of the token endpoint that cannot make a refresh succeed
FailingReply(reply) ==
    \/ reply.kind = "exception"
    \/ reply.status # 200
    \/ ~reply.parsed
    \/ "access_token" \notin DOMAIN reply.doc

\* C28: a refresh that fails, because the record has no refresh token, no
\* client id is configured, the answer is not a 200, the transport fails or a
\* 200 body lacks access_token, returns failure and leaves the store's cache,
\* the token file, the client's record and the header as they were.
C28_FailedRefreshChangesNothing ==
    [][\A c \in Calls :
          /\ (/\ calls'[c].refreshCalls = calls[c].refreshCalls + 1
              /\ \/ token_data = None
                 \/ token_data[1].refresh_token \in {None, Some("")}
                 \/ env.client_id \in {None, Some("")}) =>
                 /\ calls'[c].posts = calls[c].posts
                 /\ UNCHANGED <<cache, file, fmode, token_data, header>>
          /\ (/\ PostPending(calls[c])
              /\ calls'[c] # calls[c]
              /\ calls'[c].lastResult = "False" \/ FailingReply(calls'[c].lastReply)) =>
                 /\ calls'[c].lastResult = "False"
                 /\ UNCHANGED <<cache, file, fmode, token_data, header>>
      ]_vars

C28_Witness ==
    \E c \in Calls :
        /\ calls[c].lastResult = "False"
        /\ calls[c].lastReply.kind = "response"
        /\ calls[c].lastReply.status = 200
        /\ calls[c].lastReply.parsed
        /\ "access_token" \notin DOMAIN calls[c].lastReply.doc
        /\ header = "Bearer A0"
        /\ cache = token_data

\* the call was retried after a 401 and a successful refresh
Retried(k) == k.refreshed = "True" /\ Len(k.reqs) = 2

\* the retry goes out with the token of the refresh response, which the
\* store and the header hold by then
RetryCarriesNewToken(k) ==
    /\ k.reqs[2].auth = "Bearer " \o Str(k.lastReply.doc["access_token"])
    /\ header = k.reqs[2].auth
    /\ cache # None
    /\ cache[1].access_token = k.lastReply.doc["access_token"]

\* C29 as stated: after a 401 and a successful refresh the retry carries the
\* access token of the refresh response, which the store and the header hold
\* by then, and never the token of the rejected request.
C29_Original ==
    \A c \in Calls :
        Retried(calls[c]) =>
            /\ RetryCarriesNewToken(calls[c])
            /\ calls[c].reqs[2].auth # calls[c].reqs[1].auth

\* C29 amended: after a 401 and a successful refresh the retry carries the
\* access token of the refresh response, which the store and the header hold
\* by then; it differs from the rejected token exactly when the token
\* endpoint handed out a different one.
C29_RetryCarriesNewToken ==
    \A c \in Calls :
        Retried(calls[c]) =>
            /\ RetryCarriesNewToken(calls[c])
            /\ (calls[c].reqs[2].auth # calls[c].reqs[1].auth) <=>
                   ("Bearer " \o Str(calls[c].lastReply.doc["access_token"])
                        # calls[c].reqs[1].auth)

C29_Witness ==
    \E c \in Calls :
        /\ Retried(calls[c])
        /\ calls[c].reqs[1].auth = "Bearer A0"
        /\ calls[c].reqs[2].auth = "Bearer A1"
        /\ cache[1].access_token = Some("A1")

\* C30: once a save has put the record's content in the token file, the
\* file's mode is 0600, also when the permission change failed.
C30_ContentOnlyWithMode600 ==
    (/\ st.op \in {"save", "update_from_response"}
     /\ ~st.raised
     /\ cache # None
     /\ file = JsonFile(to_dict(cache[1]))) =>
        fmode = Some(Mode600)

\* C22: at most one refresh request of the client is in flight at any time.
C22_SingleRefreshInFlight ==
    Cardinality({c \in Calls : PostPending(calls[c])}) <= 1

\* the call ended with the error raised for a 401 whose refresh failed
AuthFailure(k) ==
    k.pc = "done" /\ k.outcome.kind = "HTTPStatusError" /\ k.refreshed = "False"

\* the call ended with the error of raise_for_status: a status that is
\* neither 2xx nor a first 401, or a failed retry after a successful refresh
GenericFailure(k) ==
    k.pc = "done" /\ k.outcome.kind = "HTTPStatusError" /\ k.refreshed # "False"

\* the exception the client method hands to its caller
MethodError(k) == [type |-> k.outcome.kind, msg |-> k.outcome.msg]

\* C23: an authentication failure and a generic request failure never look
\* alike, neither as the exception of the client method nor as the result of
\* call_tool.
C23_AuthFailureDistinct ==
    \A a \in Calls, b \in Calls :
        (AuthFailure(calls[a]) /\ GenericFailure(calls[b])) =>
            /\ MethodError(calls[a]) # MethodError(calls[b])
            /\ call_tool(client, env.token_file, calls[a]).value
                   # call_tool(client, env.token_file, calls[b]).value
====
